---------------------------- MODULE Spec2Model ----------------------------
(***************************************************************************)
(* State-machine model of candle's CUDA storage backend                    *)
(* (src/src/cuda_backend.rs): devices, each with its kernel cache and FIFO *)
(* execution stream, the device buffers, and host threads that call        *)
(* zeros_impl, const_impl, cuda_from_cpu_storage, affine_impl and          *)
(* to_cpu_storage on it.  Every driver call of the source is one step of   *)
(* the calling thread; the device drains its stream asynchronously.        *)
(*                                                                         *)
(* Element values are integers.  F64 holds every integer of the model      *)
(* exactly; F32 holds 24 significant bits, so `as f32` rounds.             *)
(***************************************************************************)
EXTENDS Integers, Sequences, FiniteSets, TLC

\* ------------------------------------------------------------- bounds
\* Host threads sharing the device handle.
NumThreads == 2
\* Largest element count of a shape or host buffer.
MaxLen == 2
\* Device allocations made in one run: a call that allocates starts only
\* while one is left.
MaxBufs == 2
\* Driver or compiler failures the environment may inject in one run.
MaxFaults == 1
\* cudarc devices (each with its own context, kernel cache and stream).
NumDevices == 2

\* ---------------------------------------------------- program constants
\* cudarc's LaunchConfig::for_num_elems uses blocks of 1024 threads.
NUM_THREADS == 1024
\* Largest integer an f32 holds exactly is 2^24; beyond it `as f32` rounds.
F32_MANT == 16777216
\* Marker of a device element no write has reached yet (alloc is unsafe:
\* the memory is uninitialised).  Element values proper are >= 0.
Uninit == -1

Threads == 1..NumThreads
Devices == 1..NumDevices
DTypes == {"F32", "F64"}
KernelNames == {"fill_f32", "fill_f64", "affine_f32", "affine_f64"}

\* Values a caller passes: one of them (2^24 + 1) is not an f32.
ConstVals == {1, F32_MANT + 1}
MulVals == {1, 2}
AddVals == {1, F32_MANT + 1}
HostVals == {0, 1}

VARIABLES
    modules,    \* per device, its kernel cache: the loaded module names
    compiles,   \* per device and kernel name, the compile_ptx calls that returned a PTX
    loads,      \* per device and kernel name, the load_ptx calls that inserted a module
    bufs,       \* device memory: buffer id -> [dev, dtype, data, origin], in alloc order
    stream,     \* per device, its FIFO stream of enqueued work
    storages,   \* the CudaStorage values callers hold: [tag, buf]
    th,         \* per thread: the call it is in and its locals
    faults,     \* failures injected so far
    devErr,     \* per device: the context is in a sticky error state (a kernel faulted)
    launched    \* per device, the kernel launches accepted by its stream so far

vars == <<modules, compiles, loads, bufs, stream, storages, th, faults, devErr, launched>>

\* ------------------------------------------------------ pure functions

\* Shape::elem_count: the product of the dimensions.
RECURSIVE Product(_)
Product(dims) == IF dims = <<>> THEN 1 ELSE Head(dims) * Product(Tail(dims))

elem_count(shape) == Product(shape)

\* Shape::is_contiguous: same rank, and walking the dimensions from the last
\* to the first each stride equals the product of the dimensions after it.
RECURSIVE ContigFrom(_, _, _, _)
ContigFrom(shape, stride, i, acc) ==
    IF i = 0 THEN TRUE
    ELSE IF stride[i] # acc THEN FALSE
    ELSE ContigFrom(shape, stride, i - 1, acc * shape[i])

is_contiguous(shape, stride) ==
    /\ Len(shape) = Len(stride)
    /\ ContigFrom(shape, stride, Len(shape), 1)

\* `n as u32`: the low 32 bits of a usize.
AsU32(n) == (n % 65536) + 65536 * ((n \div 65536) % 65536)

\* LaunchConfig::for_num_elems(n): grid_dim.x = ceil(n / 1024) blocks of
\* block_dim.x = 1024 threads.
for_num_elems(n) ==
    [grid |-> (n + NUM_THREADS - 1) \div NUM_THREADS, block |-> NUM_THREADS]

TotalThreads(cfg) == cfg.grid * cfg.block

\* The unit in the last place of an f32 holding magnitude m >= 2^24.
RECURSIVE Ulp(_, _)
Ulp(m, q) == IF m < q * F32_MANT THEN q ELSE Ulp(m, 2 * q)

\* `v as f32` for a non-negative integer-valued f64: round to 24 significant
\* bits, ties to even.
AsF32(v) ==
    IF v < F32_MANT THEN v
    ELSE LET q == Ulp(v, 2)
             r == v % q
             lo == v - r
         IN  IF 2 * r < q THEN lo
             ELSE IF 2 * r > q THEN lo + q
             ELSE IF (lo \div q) % 2 = 0 THEN lo ELSE lo + q

\* The scalar cast const_impl and affine_impl apply before the launch:
\* `v as f32` on the F32 arm, none on the F64 arm.
CastTo(dtype, v) == IF dtype = "F32" THEN AsF32(v) ELSE v

\* One element of the affine kernels:  y[i] = x[i] * mul + add  at the
\* buffer's precision.  The model's multipliers are powers of two, so the
\* product is exact and the result is rounded once, fused or not.
AffineElem(dtype, x, mul, add) ==
    IF x = Uninit THEN Uninit ELSE CastTo(dtype, x * mul + add)

\* Kernel name { op }_{ dtype } as written on the match arms.
FillName(dtype) == IF dtype = "F32" THEN "fill_f32" ELSE "fill_f64"
AffineName(dtype) == IF dtype = "F32" THEN "affine_f32" ELSE "affine_f64"

\* The extern "C" entry points of the two embedded sources.
EntryPoints(source) ==
    IF source = "AFFINE_CU" THEN {"affine_f32", "affine_f64"}
    ELSE {"fill_f16", "fill_f32", "fill_f64"}

SourceOf(k) == IF k \in {"affine_f32", "affine_f64"} THEN "AFFINE_CU" ELSE "FILL_CU"


\* ------------------------------------------------------------ the state

\* A CudaDevice handle: an Arc of one of the cudarc devices (`arc` names the
\* device it points to; `id` tells the clones of a handle apart).
Handle(d, i) == [arc |-> d, id |-> i]

\* #[derive(Clone)] on CudaDevice clones the Arc: the clone points to the
\* same device.
Clone(h) == [arc |-> h.arc, id |-> h.id + 1]

\* Device d was created by CudaDevice::new(d - 1).
DeviceOrdinal(d) == d - 1

\* CudaDevice::ordinal
ordinal(h) == DeviceOrdinal(h.arc)

\* A thread between two calls.  (dev: the device the call runs on; mark: the
\* launches its stream had accepted when the thread's synchronous copy was
\* enqueued.)
Idle ==
    [pc |-> "idle", op |-> "none", dtype |-> "F32", n |-> 0, grid |-> 0,
     a |-> 0, b |-> 0, src |-> 0, data |-> 0, k |-> "none", host |-> <<>>,
     shape |-> <<>>, stride |-> <<>>, out |-> "none", code |-> "none",
     mark |-> 0, dev |-> 0]

\* A buffer whose CudaSlice was dropped.
Freed == [dev |-> 0, dtype |-> "none", data |-> <<>>, live |-> FALSE,
          origin |-> [op |-> "none", dtype |-> "none", n |-> 0, a |-> 0,
                      b |-> 0, src |-> 0, host |-> <<>>]]

\* dev.alloc::<T>(n): n elements of uninitialised memory of device d; the
\* slice keeps the Arc of its device.
NewBuf(d, dtype, n, origin) ==
    [dev |-> d, dtype |-> dtype, data |-> [i \in 1..n |-> Uninit],
     live |-> TRUE, origin |-> origin]

\* How a buffer came to be: the call that allocated it and its arguments
\* (dtype and element count asked for, scalars, input storage, host data).
Origin(op, dtype, n, a, b, src, host) ==
    [op |-> op, dtype |-> dtype, n |-> n, a |-> a, b |-> b, src |-> src,
     host |-> host]

\* Work is enqueued at the tail of the stream.
EnqueueFront(q, op) == <<op>> \o q

Enqueue(q, op) == Append(q, op)

\* An entry of the stream.
StreamOp(kind, dst, src, n, total, a, b, t, host) ==
    [kind |-> kind, dst |-> dst, src |-> src, n |-> n, total |-> total,
     a |-> a, b |-> b, t |-> t, host |-> host]

Init ==
    /\ modules = [d \in Devices |-> {}]
    /\ compiles = [d \in Devices |-> [k \in KernelNames |-> 0]]
    /\ loads = [d \in Devices |-> [k \in KernelNames |-> 0]]
    /\ bufs = <<>>
    /\ stream = [d \in Devices |-> <<>>]
    /\ storages = {}
    /\ th = [t \in Threads |-> Idle]
    /\ faults = 0
    /\ devErr = [d \in Devices |-> FALSE]
    /\ launched = [d \in Devices |-> 0]

\* Outcomes of one driver call on device d (the `?` after it): it succeeds,
\* or returns a DriverError: an injected failure, or the sticky error of a
\* faulted context.
DriverOutcomes(d) ==
    IF devErr[d] THEN {"STICKY"}
    ELSE {"ok"} \cup (IF faults < MaxFaults THEN {"FAULT"} ELSE {})

\* Calls under way that will still allocate a buffer.
WillAlloc ==
    {t \in Threads : th[t].data = 0 /\ th[t].pc \in
        {"alloc", "has_func", "compile", "load", "get_func"}}

\* A call that allocates may start.
AllocLeft == Len(bufs) + Cardinality(WillAlloc) < MaxBufs

Injected(o) == IF o = "FAULT" THEN 1 ELSE 0

\* Early return through `?` / Err(..): the call ends with the error and the
\* buffer it had allocated, if any, is dropped with its CudaSlice.
FailKeep(t, kind, code) ==
    /\ th' = [th EXCEPT ![t] = [@ EXCEPT !.pc = "ret", !.out = kind,
                                         !.code = code]]
    /\ bufs' = bufs

Fail(t, kind, code) ==
    /\ th' = [th EXCEPT ![t] = [@ EXCEPT !.pc = "ret", !.out = kind,
                                         !.code = code, !.data = 0]]
    /\ bufs' = IF th[t].data # 0 THEN [bufs EXCEPT ![th[t].data] = Freed] ELSE bufs

\* ------------------------------------------------- CudaDevice::zeros_impl
\* alloc_zeros: allocate and enqueue the memset (no kernel), then return.
ZerosCallLaunch(t, h, shape, dtype) ==
    /\ th[t].pc = "idle"
    /\ AllocLeft
    /\ bufs' = Append(bufs, NewBuf(h.arc, dtype, elem_count(shape),
                        Origin("zeros", dtype, elem_count(shape), 0, 0, 0, <<>>)))
    /\ stream' = [stream EXCEPT ![h.arc] = Enqueue(@,
           StreamOp("fill", Len(bufs) + 1, 0, elem_count(shape),
                    TotalThreads(for_num_elems(elem_count(shape))), 0, 0, 0, <<>>))]
    /\ launched' = [launched EXCEPT ![h.arc] = @ + 1]
    /\ th' = [th EXCEPT ![t] = [Idle EXCEPT !.pc = "ret", !.op = "zeros",
                !.dev = h.arc, !.dtype = dtype, !.n = elem_count(shape),
                !.data = Len(bufs) + 1, !.out = "Ok"]]
    /\ UNCHANGED <<modules, compiles, loads, storages, faults, devErr>>

ZerosCall(t, h, shape, dtype) ==
    /\ th[t].pc = "idle"
    /\ AllocLeft
    /\ \E o \in DriverOutcomes(h.arc) :
         /\ faults' = faults + Injected(o)
         /\ IF o = "ok"
            THEN /\ bufs' = Append(bufs, NewBuf(h.arc, dtype, elem_count(shape),
                                     Origin("zeros", dtype, elem_count(shape), 0, 0, 0, <<>>)))
                 /\ stream' = [stream EXCEPT ![h.arc] = Enqueue(@,
                        StreamOp("memset", Len(bufs) + 1, 0, elem_count(shape),
                                 0, 0, 0, 0, <<>>))]
                 /\ th' = [th EXCEPT ![t] = [Idle EXCEPT !.pc = "ret",
                             !.op = "zeros", !.dev = h.arc, !.dtype = dtype,
                             !.n = elem_count(shape), !.data = Len(bufs) + 1,
                             !.out = "Ok"]]
            ELSE /\ th' = [th EXCEPT ![t] = [Idle EXCEPT !.pc = "ret",
                             !.op = "zeros", !.dev = h.arc, !.dtype = dtype,
                             !.n = elem_count(shape),
                             !.out = "Cuda", !.code = o]]
                 /\ UNCHANGED <<bufs, stream>>
    /\ UNCHANGED <<modules, compiles, loads, storages, devErr, launched>>

\* ------------------------------------------------- CudaDevice::const_impl
\* elem_count and cfg are computed first; the match arm then allocates on
\* the handle's device, resolves the fill kernel and launches it.
ConstCall(t, h, v, shape, dtype) ==
    /\ th[t].pc = "idle"
    /\ AllocLeft
    /\ th' = [th EXCEPT ![t] = [Idle EXCEPT !.pc = "alloc", !.op = "const",
                !.dev = h.arc, !.dtype = dtype, !.n = elem_count(shape),
                !.grid = for_num_elems(AsU32(elem_count(shape))).grid,
                !.a = v, !.k = FillName(dtype)]]
    /\ UNCHANGED <<modules, compiles, loads, bufs, stream, storages, faults,
                   devErr, launched>>

\* --------------------------------------------------- CudaStorage::dtype
\* match self { Self::F32(_) => DType::F32, Self::F64(_) => DType::F64 }
StorageDTypeSwapped(s) == IF s.tag = "F32" THEN "F64" ELSE "F32"

StorageDType(s) == IF s.tag = "F32" THEN "F32" ELSE "F64"

\* -------------------------------------------------- CudaStorage::device
\* CudaDevice(slice.device()): a handle made of the Arc the slice keeps.
StorageDeviceFirst(s) == Handle(1, 0)

StorageDevice(s) == Handle(bufs[s.buf].dev, 0)

\* ---------------------------------------------- CudaStorage::affine_impl
\* if !shape.is_contiguous(stride) { return Err(RequiresContiguous) }
RejectsNothing(shape, stride) == FALSE

Rejects(shape, stride) == ~is_contiguous(shape, stride)

\* The contiguity check returns before anything else is done; otherwise
\* elem_count, cfg and the device of the storage are taken and the match arm
\* resolves the kernel of the storage's variant on that device.
AffineCall(t, s, shape, stride, mul, add) ==
    /\ th[t].pc = "idle"
    /\ s \in storages
    /\ ~Rejects(shape, stride) => AllocLeft
    /\ IF Rejects(shape, stride)
       THEN th' = [th EXCEPT ![t] = [Idle EXCEPT !.pc = "ret", !.op = "affine",
                     !.dtype = s.tag, !.src = s.buf,
                     !.shape = shape, !.stride = stride,
                     !.out = "RequiresContiguous", !.code = "affine"]]
       ELSE th' = [th EXCEPT ![t] = [Idle EXCEPT !.pc = "has_func",
                     !.op = "affine", !.dev = StorageDevice(s).arc,
                     !.dtype = s.tag, !.src = s.buf,
                     !.shape = shape, !.stride = stride,
                     !.n = elem_count(shape),
                     !.grid = for_num_elems(AsU32(elem_count(shape))).grid,
                     !.a = mul, !.b = add, !.k = AffineName(s.tag)]]
    /\ UNCHANGED <<modules, compiles, loads, bufs, stream, storages, faults,
                   devErr, launched>>

\* unsafe { dev.alloc::<T>(elem_count) }?  of const_impl and affine_impl.
AllocInPlace(t) ==
    /\ th[t].pc = "alloc"
    /\ IF th[t].op = "const"
       THEN /\ bufs' = Append(bufs, NewBuf(th[t].dev, th[t].dtype, th[t].n,
                          Origin("const", th[t].dtype, th[t].n, th[t].a, 0, 0, <<>>)))
            /\ th' = [th EXCEPT ![t] = [@ EXCEPT !.data = Len(bufs) + 1,
                                                 !.pc = "has_func"]]
       ELSE /\ bufs' = bufs
            /\ th' = [th EXCEPT ![t] = [@ EXCEPT !.data = th[t].src,
                                                 !.pc = "launch"]]
    /\ UNCHANGED <<modules, compiles, loads, stream, storages, faults, devErr,
                   launched>>

Alloc(t) ==
    /\ th[t].pc = "alloc"
    /\ \E o \in DriverOutcomes(th[t].dev) :
         /\ faults' = faults + Injected(o)
         /\ IF o = "ok"
            THEN /\ bufs' = Append(bufs, NewBuf(th[t].dev, th[t].dtype, th[t].n,
                       IF th[t].op = "const"
                       THEN Origin("const", th[t].dtype, th[t].n, th[t].a, 0, 0, <<>>)
                       ELSE Origin("affine", th[t].dtype, th[t].n, th[t].a,
                                   th[t].b, th[t].src, <<>>)))
                 /\ th' = [th EXCEPT ![t] = [@ EXCEPT !.data = Len(bufs) + 1,
                       !.pc = IF th[t].op = "const" THEN "has_func" ELSE "launch"]]
            ELSE Fail(t, "Cuda", o)
    /\ UNCHANGED <<modules, compiles, loads, stream, storages, devErr, launched>>

\* -------------------------------------------- CudaDevice::get_or_load_func
\* if !dev.has_func(module_name, module_name)
HasFuncAlwaysMiss(t) ==
    /\ th[t].pc = "has_func"
    /\ th' = [th EXCEPT ![t].pc = "compile"]
    /\ UNCHANGED <<modules, compiles, loads, bufs, stream, storages, faults,
                   devErr, launched>>

HasFunc(t) ==
    /\ th[t].pc = "has_func"
    /\ th' = [th EXCEPT ![t].pc =
                IF th[t].k \in modules[th[t].dev] THEN "get_func" ELSE "compile"]
    /\ UNCHANGED <<modules, compiles, loads, bufs, stream, storages, faults,
                   devErr, launched>>

\* let ptx = cudarc::nvrtc::compile_ptx(source)?;
CompilePtx(t) ==
    /\ th[t].pc = "compile"
    /\ \E o \in {"ok"} \cup (IF faults < MaxFaults THEN {"FAULT"} ELSE {}) :
         /\ faults' = faults + Injected(o)
         /\ IF o = "ok"
            THEN /\ compiles' = [compiles EXCEPT ![th[t].dev][th[t].k] = @ + 1]
                 /\ th' = [th EXCEPT ![t].pc = "load"]
                 /\ UNCHANGED bufs
            ELSE /\ Fail(t, "Compiler", "none")
                 /\ UNCHANGED compiles
    /\ UNCHANGED <<modules, loads, stream, storages, devErr, launched>>

\* dev.load_ptx(ptx, module_name, &[module_name])?;  the module is inserted
\* under module_name when the PTX holds the entry point of that name.
LoadPtxWholeSource(t) ==
    /\ th[t].pc = "load"
    /\ \E o \in DriverOutcomes(th[t].dev) :
         /\ faults' = faults + Injected(o)
         /\ IF o = "ok"
            THEN /\ modules' = [modules EXCEPT ![th[t].dev] =
                                  @ \cup (EntryPoints(SourceOf(th[t].k)) \cap KernelNames)]
                 /\ loads' = [loads EXCEPT ![th[t].dev][th[t].k] = @ + 1]
                 /\ th' = [th EXCEPT ![t].pc = "get_func"]
                 /\ UNCHANGED bufs
            ELSE /\ Fail(t, "Cuda", o)
                 /\ UNCHANGED <<modules, loads>>
    /\ UNCHANGED <<compiles, stream, storages, devErr, launched>>

LoadPtxInsertOnFail(t) ==
    /\ th[t].pc = "load"
    /\ \E o \in DriverOutcomes(th[t].dev) :
         /\ faults' = faults + Injected(o)
         /\ modules' = [modules EXCEPT ![th[t].dev] = @ \cup {th[t].k}]
         /\ IF o = "ok"
            THEN /\ loads' = [loads EXCEPT ![th[t].dev][th[t].k] = @ + 1]
                 /\ th' = [th EXCEPT ![t].pc = "get_func"]
                 /\ UNCHANGED bufs
            ELSE /\ Fail(t, "Cuda", o)
                 /\ UNCHANGED loads
    /\ UNCHANGED <<compiles, stream, storages, devErr, launched>>

LoadPtxNoInsert(t) ==
    /\ th[t].pc = "load"
    /\ th' = [th EXCEPT ![t].pc = "get_func"]
    /\ UNCHANGED <<modules, compiles, loads, bufs, stream, storages, faults,
                   devErr, launched>>

LoadPtx(t) ==
    /\ th[t].pc = "load"
    /\ \E o \in DriverOutcomes(th[t].dev) :
         /\ faults' = faults + Injected(o)
         /\ IF o = "ok" /\ th[t].k \in EntryPoints(SourceOf(th[t].k))
            THEN /\ modules' = [modules EXCEPT ![th[t].dev] = @ \cup {th[t].k}]
                 /\ loads' = [loads EXCEPT ![th[t].dev][th[t].k] = @ + 1]
                 /\ th' = [th EXCEPT ![t].pc = "get_func"]
                 /\ UNCHANGED bufs
            ELSE /\ Fail(t, "Cuda", IF o = "ok" THEN "NOT_FOUND" ELSE o)
                 /\ UNCHANGED <<modules, loads>>
    /\ UNCHANGED <<compiles, stream, storages, devErr, launched>>

\* dev.get_func(module_name, module_name).ok_or(MissingKernel { module_name })
GetFunc(t) ==
    /\ th[t].pc = "get_func"
    /\ IF th[t].k \in modules[th[t].dev]
       THEN /\ th' = [th EXCEPT ![t].pc =
                        IF th[t].op = "const" THEN "launch" ELSE "alloc"]
            /\ UNCHANGED bufs
       ELSE Fail(t, "MissingKernel", th[t].k)
    /\ UNCHANGED <<modules, compiles, loads, stream, storages, faults, devErr,
                   launched>>

\* unsafe { func.launch(cfg, params) }?;  Ok(CudaStorage::T(data))
\* The driver rejects a grid of zero blocks (CUDA_ERROR_INVALID_VALUE);
\* an accepted launch is appended to the device's stream and the call
\* returns.
Launch(t) ==
    /\ th[t].pc = "launch"
    /\ \E o \in DriverOutcomes(th[t].dev) :
         /\ faults' = faults + Injected(o)
         /\ IF o = "ok" /\ th[t].grid > 0
            THEN /\ stream' = [stream EXCEPT ![th[t].dev] = Enqueue(@,
                       IF th[t].op = "const"
                       THEN StreamOp("fill", th[t].data, 0, th[t].n,
                                TotalThreads([grid |-> th[t].grid, block |-> NUM_THREADS]),
                                CastTo(th[t].dtype, th[t].a), 0, 0, <<>>)
                       ELSE StreamOp("affine", th[t].data, th[t].src, th[t].n,
                                TotalThreads([grid |-> th[t].grid, block |-> NUM_THREADS]),
                                CastTo(th[t].dtype, th[t].a),
                                CastTo(th[t].dtype, th[t].b), 0, <<>>))]
                 /\ launched' = [launched EXCEPT ![th[t].dev] = @ + 1]
                 /\ th' = [th EXCEPT ![t] = [@ EXCEPT !.pc = "ret", !.out = "Ok"]]
                 /\ UNCHANGED bufs
            ELSE /\ Fail(t, "Cuda", IF o = "ok" THEN "INVALID_VALUE" ELSE o)
                 /\ UNCHANGED <<stream, launched>>
    /\ UNCHANGED <<modules, compiles, loads, storages, devErr>>


\* ----------------------------------- CudaDevice::cuda_from_cpu_storage
\* htod_sync_copy: allocate, enqueue the host-to-device copy, and wait for
\* the stream to reach it.
FromHostCall(t, h, hbuf, dtype) ==
    /\ th[t].pc = "idle"
    /\ AllocLeft
    /\ \E o \in DriverOutcomes(h.arc) :
         /\ faults' = faults + Injected(o)
         /\ IF o = "ok"
            THEN /\ bufs' = Append(bufs, NewBuf(h.arc, dtype, Len(hbuf),
                                     Origin("from_host", dtype, Len(hbuf), 0, 0, 0, hbuf)))
                 /\ stream' = [stream EXCEPT ![h.arc] = Enqueue(@,
                        StreamOp("htod", Len(bufs) + 1, 0, Len(hbuf), 0, 0, 0,
                                 t, hbuf))]
                 /\ th' = [th EXCEPT ![t] = [Idle EXCEPT !.pc = "wait",
                             !.op = "from_host", !.dev = h.arc, !.dtype = dtype,
                             !.n = Len(hbuf), !.data = Len(bufs) + 1,
                             !.mark = launched[h.arc]]]
            ELSE /\ th' = [th EXCEPT ![t] = [Idle EXCEPT !.pc = "ret",
                             !.op = "from_host", !.dev = h.arc, !.dtype = dtype,
                             !.n = Len(hbuf), !.out = "Cuda", !.code = o]]
                 /\ UNCHANGED <<bufs, stream>>
    /\ UNCHANGED <<modules, compiles, loads, storages, devErr, launched>>

\* ------------------------------------------ CudaStorage::to_cpu_storage
\* let dev = slice.device();  dtoh_sync_copy: enqueue the device-to-host
\* copy of the whole slice on the slice's device and wait for the stream to
\* reach it.
ToHostCallAsync(t, s) ==
    /\ th[t].pc = "idle"
    /\ s \in storages
    /\ stream' = [stream EXCEPT ![bufs[s.buf].dev] = Enqueue(@,
           StreamOp("dtoh", 0, s.buf, Len(bufs[s.buf].data), 0, 0, 0, 0, <<>>))]
    /\ th' = [th EXCEPT ![t] = [Idle EXCEPT !.pc = "ret", !.op = "to_host",
                !.dev = bufs[s.buf].dev, !.dtype = s.tag, !.src = s.buf,
                !.mark = launched[bufs[s.buf].dev],
                !.out = "Ok", !.host = bufs[s.buf].data]]
    /\ UNCHANGED <<modules, compiles, loads, bufs, storages, faults, devErr,
                   launched>>

ToHostCall(t, s) ==
    /\ th[t].pc = "idle"
    /\ s \in storages
    /\ \E o \in DriverOutcomes(bufs[s.buf].dev) :
         /\ faults' = faults + Injected(o)
         /\ IF o = "ok"
            THEN /\ stream' = [stream EXCEPT ![bufs[s.buf].dev] = Enqueue(@,
                        StreamOp("dtoh", 0, s.buf, Len(bufs[s.buf].data), 0, 0,
                                 0, t, <<>>))]
                 /\ th' = [th EXCEPT ![t] = [Idle EXCEPT !.pc = "wait",
                             !.op = "to_host", !.dev = bufs[s.buf].dev,
                             !.dtype = s.tag, !.src = s.buf,
                             !.mark = launched[bufs[s.buf].dev]]]
            ELSE /\ th' = [th EXCEPT ![t] = [Idle EXCEPT !.pc = "ret",
                             !.op = "to_host", !.dev = bufs[s.buf].dev,
                             !.dtype = s.tag, !.src = s.buf,
                             !.out = "Cuda", !.code = o]]
                 /\ UNCHANGED stream
    /\ UNCHANGED <<modules, compiles, loads, bufs, storages, devErr, launched>>

\* ------------------------------------------------------------ the device

\* fill_with: thread tid of `total` writes buf[i] = value for i = tid,
\* tid + total, ... while i < numel (grid-stride loop).
FillWritten(numel, total) ==
    {i \in 0..(numel - 1) : total > 0 /\ (i % total) \in 0..(total - 1)}

\* affine_f32 / affine_f64: thread i of `total` returns if i >= numel and
\* otherwise writes y[i]; there is no loop.
AffineWrittenShort(numel, total) ==
    {i \in 0..(numel - 2) : i < total}

AffineWritten(numel, total) ==
    {i \in 0..(numel - 1) : i < total}

\* The memset of alloc_zeros clears the whole buffer.
MemsetShort(old) == [i \in 1..Len(old) |-> IF i < Len(old) THEN 0 ELSE old[i]]

Memset(old) == [i \in 1..Len(old) |-> 0]

\* The host-to-device copy writes the host slice into the new buffer,
\* which was allocated with the slice's length.
HtoDShort(old, host) ==
    [i \in 1..Len(old) |-> IF i < Len(old) THEN host[i] ELSE old[i]]

HtoD(old, host) == [i \in 1..Len(old) |-> host[i]]

\* The device-to-host copy reads the whole slice.
DtoH(data) == [i \in 1..Len(data) |-> data[i]]

\* Indices at which the affine kernel reads x beyond the end of its buffer.
OobReads(op) ==
    {i \in AffineWritten(op.n, op.total) : i >= Len(bufs[op.src].data)}

\* What an out-of-bounds read may return.
OobVals == {0, 3}

\* The outcomes of executing the head of the stream on buffer contents:
\* the new contents of the written buffer and whether the kernel faulted.
\* A read beyond the end of x is undefined: it returns some value, or the
\* kernel faults and leaves the context in a sticky error.
ExecOutcomes(op) ==
    LET old == IF op.dst = 0 THEN <<>> ELSE bufs[op.dst].data
    IN  IF op.kind = "memset"
        THEN {[data |-> Memset(old), fault |-> FALSE]}
        ELSE IF op.kind = "fill"
        THEN {[data |-> [i \in 1..Len(old) |->
                           IF (i - 1) \in FillWritten(op.n, op.total)
                           THEN op.a ELSE old[i]],
               fault |-> FALSE]}
        ELSE IF op.kind = "affine"
        THEN LET x == bufs[op.src].data
                 dt == bufs[op.dst].dtype
             IN  {[data |-> [i \in 1..Len(old) |->
                               IF (i - 1) \in AffineWritten(op.n, op.total)
                               THEN AffineElem(dt,
                                        IF i <= Len(x) THEN x[i] ELSE g[i - 1],
                                        op.a, op.b)
                               ELSE old[i]],
                    fault |-> FALSE] : g \in [OobReads(op) -> OobVals]}
                 \cup (IF OobReads(op) # {}
                       THEN {[data |-> old, fault |-> TRUE]} ELSE {})
        ELSE IF op.kind = "htod"
        THEN {[data |-> HtoD(old, op.host), fault |-> FALSE]}
        ELSE {[data |-> old, fault |-> FALSE]}

\* Device d executes the entry at the head of its stream (FIFO).  A
\* synchronous copy wakes the thread waiting for it.  In a sticky error
\* state nothing more is executed and the waiting call gets the error.
DeviceStep(d) ==
    /\ stream[d] # <<>>
    /\ LET op == Head(stream[d])
       IN  /\ stream' = [stream EXCEPT ![d] = Tail(@)]
           /\ IF devErr[d]
              THEN /\ IF op.t # 0 THEN Fail(op.t, "Cuda", "STICKY")
                                  ELSE UNCHANGED <<th, bufs>>
                   /\ UNCHANGED devErr
              ELSE \E r \in ExecOutcomes(op) :
                      /\ devErr' = [devErr EXCEPT ![d] = r.fault]
                      /\ bufs' = IF op.dst = 0 THEN bufs
                                 ELSE [bufs EXCEPT ![op.dst].data = r.data]
                      /\ th' = IF op.t = 0 THEN th
                               ELSE [th EXCEPT ![op.t] = [@ EXCEPT
                                       !.pc = "ret", !.out = "Ok",
                                       !.host = IF op.kind = "dtoh"
                                                THEN DtoH(bufs[op.src].data)
                                                ELSE <<>>]]
    /\ UNCHANGED <<modules, compiles, loads, storages, faults, launched>>

\* The call returns to its caller: an Ok(storage) hands the new CudaStorage
\* over, every other result carries no storage.
Return(t) ==
    /\ th[t].pc = "ret"
    /\ storages' =
         IF th[t].out = "Ok" /\ th[t].op \in {"zeros", "const", "from_host", "affine"}
         THEN storages \cup {[tag |-> th[t].dtype, buf |-> th[t].data]}
         ELSE storages
    /\ th' = [th EXCEPT ![t] = Idle]
    /\ UNCHANGED <<modules, compiles, loads, bufs, stream, faults, devErr, launched>>

\* ------------------------------------------------------ specifications

\* The arguments callers pass: shapes of rank 1 and 2 with at most MaxLen
\* elements, stride lists, scalars, host buffers, device handles.
Shapes == {<<n>> : n \in 0..MaxLen} \cup {<<1, MaxLen>>, <<MaxLen, 1>>}

Strides == {<<1>>, <<MaxLen>>, <<1, 1>>, <<MaxLen, 1>>, <<1, MaxLen>>}

HostBufs == {[i \in 1..n |-> b + i] : n \in 0..MaxLen, b \in HostVals}

\* A single caller with a handle of the first device draws its arguments
\* from these.
SeqArgs ==
    [shapes |-> Shapes, strides |-> Strides, dtypes |-> DTypes,
     consts |-> ConstVals, muls |-> MulVals, adds |-> AddVals,
     hosts |-> HostBufs, handles |-> {Handle(1, 0)}]

\* Concurrent callers with handles of the first device draw theirs from
\* these.
ConcArgs ==
    [shapes |-> {<<n>> : n \in 0..MaxLen}, strides |-> {<<1>>, <<MaxLen>>},
     dtypes |-> DTypes, consts |-> {1}, muls |-> {2}, adds |-> {1},
     hosts |-> {<<1>>}, handles |-> {Handle(1, 0), Clone(Handle(1, 0))}]

\* A caller holding a handle of every device and a clone of each.
DevArgs ==
    [shapes |-> {<<1>>}, strides |-> {<<1>>, <<MaxLen>>},
     dtypes |-> DTypes, consts |-> {1}, muls |-> {2}, adds |-> {1},
     hosts |-> {<<1>>},
     handles |-> {Handle(d, 0) : d \in Devices}
                    \cup {Clone(Handle(d, 0)) : d \in Devices}]

\* One step of thread t, a new call taking its arguments from A.
ThreadStep(t, A) ==
    \/ \E h \in A.handles, shape \in A.shapes, dtype \in A.dtypes :
          ZerosCall(t, h, shape, dtype)
    \/ \E h \in A.handles, v \in A.consts, shape \in A.shapes, dtype \in A.dtypes :
          ConstCall(t, h, v, shape, dtype)
    \/ \E h \in A.handles, hbuf \in A.hosts, dtype \in A.dtypes :
          FromHostCall(t, h, hbuf, dtype)
    \/ \E s \in storages, shape \in A.shapes, stride \in A.strides,
          mul \in A.muls, add \in A.adds :
          AffineCall(t, s, shape, stride, mul, add)
    \/ \E s \in storages : ToHostCall(t, s)
    \/ Alloc(t)
    \/ HasFunc(t)
    \/ CompilePtx(t)
    \/ LoadPtx(t)
    \/ GetFunc(t)
    \/ Launch(t)
    \/ Return(t)

\* Threads call into the shared device concurrently.
Next ==
    \/ \E t \in Threads : ThreadStep(t, ConcArgs)
    \/ \E d \in Devices : DeviceStep(d)

Spec == Init /\ [][Next]_vars

\* A single caller: thread 1 alone makes calls, one after the other.
NextSeq == ThreadStep(1, SeqArgs) \/ \E d \in Devices : DeviceStep(d)

SpecSeq == Init /\ [][NextSeq]_vars

\* A single caller working on all the devices.
NextDev == ThreadStep(1, DevArgs) \/ \E d \in Devices : DeviceStep(d)

SpecDev == Init /\ [][NextDev]_vars

\* ------------------------------------- the launch configuration, full width
\* The first two statements of const_impl and affine_impl on element counts
\* of the full usize range.  A count is written in base 2^16,
\*     count = hi * 2^32 + mid * 2^16 + lo,
\* so that every intermediate value stays a small integer.

\* Largest digit above bit 31 of a count.
MaxHi == 1

\* 2^16: a u32 is two digits of this base.
U16 == 65536

Wide(hi, mid, lo) == [hi |-> hi, mid |-> mid, lo |-> lo]

\* Element counts around the block size, the u32 range and beyond it.
WideCounts ==
    {Wide(hi, mid, lo) : hi \in 0..MaxHi, mid \in {0, 1, U16 - 1},
                         lo \in {0, 1, NUM_THREADS - 1, NUM_THREADS,
                                 NUM_THREADS + 1, U16 - NUM_THREADS,
                                 U16 - NUM_THREADS + 1, U16 - 1}}

\* `elem_count as u32` keeps the low 32 bits.
AsU32Wide(c) == Wide(0, c.mid, c.lo)

\* LaunchConfig::for_num_elems(n: u32):  (n + 1024 - 1) / 1024  in u32
\* arithmetic.  When the sum passes 2^32 - 1 the addition panics in a build
\* with overflow checks and wraps in a build without: both outcomes.
for_num_elems_wide(n) ==
    LET lo2 == n.lo + NUM_THREADS - 1
        mid2 == n.mid + (lo2 \div U16)
        grid == (mid2 % U16) * (U16 \div NUM_THREADS) + ((lo2 % U16) \div NUM_THREADS)
    IN  IF mid2 < U16
        THEN {[grid |-> grid, panic |-> FALSE]}
        ELSE {[grid |-> grid, panic |-> FALSE], [grid |-> 0, panic |-> TRUE]}

\* The least number of 1024-thread blocks with a thread for every index
\* below the count: ceil(count / 1024).  grid * 1024 >= count exactly when
\* grid >= BlocksFor(count).
BlocksFor(c) ==
    c.hi * U16 * (U16 \div NUM_THREADS) + c.mid * (U16 \div NUM_THREADS)
        + ((c.lo + NUM_THREADS - 1) \div NUM_THREADS)

\* let elem_count = shape.elem_count();
\* let cfg = LaunchConfig::for_num_elems(elem_count as u32);
CfgCall(t, op, count, dtype) ==
    /\ th[t].pc = "idle"
    /\ \E r \in for_num_elems_wide(AsU32Wide(count)) :
          th' = [th EXCEPT ![t] = [Idle EXCEPT !.pc = "cfg", !.op = op,
                    !.dtype = dtype, !.n = count, !.grid = r.grid,
                    !.out = IF r.panic THEN "panic" ELSE "none"]]
    /\ UNCHANGED <<modules, compiles, loads, bufs, stream, storages, faults,
                   devErr, launched>>

\* The configuration is used up by the launch (or the call unwound).
CfgDone(t) ==
    /\ th[t].pc = "cfg"
    /\ th' = [th EXCEPT ![t] = Idle]
    /\ UNCHANGED <<modules, compiles, loads, bufs, stream, storages, faults,
                   devErr, launched>>

NextCfg ==
    \/ \E count \in WideCounts, dtype \in DTypes : CfgCall(1, "const", count, dtype)
    \/ \E count \in WideCounts, dtype \in DTypes : CfgCall(1, "affine", count, dtype)
    \/ CfgDone(1)

SpecCfg == Init /\ [][NextCfg]_vars


\* ------------------------------------------------------------- claims

NoUninit(data) == \A i \in 1..Len(data) : data[i] # Uninit

\* Thread t holds the result of a call of `op`, about to return it.
AtRet(t, op) == th[t].pc = "ret" /\ th[t].op = op

\* Thread t's to_cpu_storage of a buffer created by `op` returned Ok.
ReadBack(t, op) ==
    /\ AtRet(t, "to_host")
    /\ th[t].out = "Ok"
    /\ bufs[th[t].src].origin.op = op

\* The call of thread t failed for a reason of the environment: the
\* compiler failed, or the driver reported an injected or sticky error.
EnvFailure(t) ==
    \/ th[t].out = "Compiler"
    \/ th[t].out = "Cuda" /\ th[t].code \in {"FAULT", "STICKY"}

\* C1: with concurrent callers and no failure of the environment, no kernel
\* name is compiled more than once on a device.
C1_CompiledAtMostOnce ==
    \A d \in Devices :
       (faults = 0 /\ ~devErr[d]) => \A k \in KernelNames : compiles[d][k] <= 1

\* C2: with a single caller, compile_ptx runs for a name only while the
\* cache has no module of that name, and at most one compilation of a name
\* is ever inserted: once get_or_load_func(k) succeeded, every later call
\* takes the cached function.
C2_CompileOnlyOnMiss ==
    [][\A d \in Devices, k \in KernelNames :
          /\ compiles'[d][k] # compiles[d][k] => k \notin modules[d]
          /\ loads'[d][k] <= 1]_vars

\* A second const_impl of a dtype reached its launch with the kernel still
\* compiled once.
C2_Witness ==
    \E t \in Threads :
       /\ th[t].op = "const" /\ th[t].pc = "launch" /\ th[t].data = 2
       /\ bufs[1].origin.op = "const" /\ bufs[1].dtype = th[t].dtype
       /\ 1 \in {s.buf : s \in storages}
       /\ compiles[th[t].dev][th[t].k] = 1


\* Entry j of the stream of device d reads buffer b: an affine launch reads
\* its input, a device-to-host copy its source.
Reads(d, j, b) == stream[d][j].kind \in {"affine", "dtoh"} /\ stream[d][j].src = b

\* Entry i of the stream of device d writes buffer b.
Writes(d, i, b) ==
    stream[d][i].kind \in {"memset", "fill", "affine", "htod"} /\ stream[d][i].dst = b

\* C3: every read of a buffer is on the stream behind the write that fills
\* it: while the device works, a read in the stream finds its buffer fully
\* written or has the buffer's write ahead of it in the stream, so the read
\* at the head of the stream never meets an unwritten element.
C3_ReadsAfterWrites ==
    \A d \in Devices :
       ~devErr[d] =>
          \A j \in 1..Len(stream[d]), b \in 1..Len(bufs) :
             Reads(d, j, b) =>
                \/ NoUninit(bufs[b].data)
                \/ \E i \in 1..(j - 1) : Writes(d, i, b)

\* A fill or affine launch and a later read of its still unwritten buffer
\* are both waiting in the stream.
C3_Witness ==
    \E d \in Devices : \E j \in 1..Len(stream[d]), b \in 1..Len(bufs) :
       /\ Reads(d, j, b)
       /\ ~NoUninit(bufs[b].data)
       /\ \E i \in 1..(j - 1) :
             Writes(d, i, b) /\ stream[d][i].kind \in {"fill", "affine"}

\* The initialising write of buffer b was accepted by the stream: it is
\* done, or waiting in the stream (or the context faulted after accepting).
Populated(b) ==
    \/ devErr[bufs[b].dev]
    \/ NoUninit(bufs[b].data)
    \/ \E i \in 1..Len(stream[bufs[b].dev]) : Writes(bufs[b].dev, i, b)

\* C4: a storage reaches a caller only with its initialising write accepted
\* by the stream.  const_impl and affine_impl return Ok with a live,
\* populated buffer, or an error with no buffer, and then the buffer they
\* allocated is dropped: every live buffer is a returned storage or still
\* owned by the call creating it.
C4_NoUninitStorage ==
    /\ \A s \in storages : bufs[s.buf].live /\ Populated(s.buf)
    /\ \A t \in Threads :
          (th[t].pc = "ret" /\ th[t].op \in {"const", "affine"}) =>
             IF th[t].out = "Ok"
             THEN th[t].data # 0 /\ bufs[th[t].data].live /\ Populated(th[t].data)
             ELSE th[t].data = 0
    /\ \A b \in 1..Len(bufs) :
          bufs[b].live =>
             \/ b \in {s.buf : s \in storages}
             \/ \E t \in Threads : th[t].data = b

\* A const_impl or affine_impl failed after it had allocated its buffer.
C4_Witness ==
    \E t \in Threads, b \in 1..Len(bufs) :
       /\ th[t].pc = "ret" /\ th[t].op \in {"const", "affine"}
       /\ th[t].out # "Ok"
       /\ ~bufs[b].live
       /\ \A d \in Devices : ~devErr[d]
       /\ \E s \in storages :
             bufs[s.buf].origin.op \in {"const", "affine"} /\ Populated(s.buf)

\* C5: an affine call whose stride is not contiguous for its shape returns
\* RequiresContiguous { op: "affine" } with no storage, and that call
\* changes nothing on the device: no buffer, no cache entry, no compilation,
\* no stream entry; returning it hands no storage over.
C5_NonContiguousRejected ==
    [][\A t \in Threads :
          /\ (/\ th[t].pc = "idle"
              /\ th'[t].op = "affine"
              /\ ~is_contiguous(th'[t].shape, th'[t].stride))
             => /\ th'[t].pc = "ret"
                /\ th'[t].out = "RequiresContiguous"
                /\ th'[t].code = "affine"
                /\ th'[t].data = 0
                /\ UNCHANGED <<bufs, modules, compiles, loads, stream,
                               launched, storages>>
          /\ (/\ th[t].pc = "ret"
              /\ th[t].out = "RequiresContiguous"
              /\ th'[t].pc = "idle")
             => UNCHANGED <<bufs, modules, compiles, loads, stream,
                            launched, storages>>]_vars

\* An affine call on a rank-2 shape with transposed strides was rejected.
C5_Witness ==
    \E t \in Threads :
       /\ AtRet(t, "affine")
       /\ th[t].out = "RequiresContiguous"
       /\ Len(th[t].shape) = 2
       /\ th[t].stride = <<1, MaxLen>>


\* C6: the host copy y of an affine output has the element count of the
\* call's shape, every element of it written, and y[i] = x[i] * mul + add in
\* the buffer's arithmetic (mul and add cast to it first) at every index i
\* the input x has.
C6_AffineCorrect ==
    \A t \in Threads :
       ReadBack(t, "affine") =>
          LET o == bufs[th[t].src].origin
              x == bufs[o.src].data
              y == th[t].host
          IN  /\ Len(y) = o.n
              /\ \A i \in 1..Len(y) :
                    /\ y[i] # Uninit
                    /\ i <= Len(x) =>
                          y[i] = CastTo(o.dtype,
                                    x[i] * CastTo(o.dtype, o.a) + CastTo(o.dtype, o.b))

\* The copy of an F32 affine output of MaxLen elements came back, computed
\* with an addend that is not an f32.
C6_Witness ==
    \E t \in Threads :
       /\ ReadBack(t, "affine")
       /\ Len(th[t].host) = MaxLen
       /\ bufs[th[t].src].origin.dtype = "F32"
       /\ bufs[th[t].src].origin.b = F32_MANT + 1
       /\ Len(bufs[bufs[th[t].src].origin.src].data) = MaxLen

\* C7: const_impl (so ones_impl) succeeds for every dtype and shape, the
\* shapes of zero elements included, unless the environment fails, and the
\* host copy of its buffer has elem_count elements all equal to the value.
C7_ConstSucceedsAndFills ==
    \A t \in Threads :
       /\ AtRet(t, "const") => (th[t].out = "Ok" \/ EnvFailure(t))
       /\ ReadBack(t, "const") =>
             LET o == bufs[th[t].src].origin
             IN  th[t].host = [i \in 1..o.n |-> CastTo(o.dtype, o.a)]

\* C8: the host copy of a zeros_impl buffer has exactly elem_count elements
\* of the dtype asked for, all zero.
C8_ZerosReadBack ==
    \A t \in Threads :
       ReadBack(t, "zeros") =>
          LET o == bufs[th[t].src].origin
          IN  /\ th[t].host = [i \in 1..o.n |-> 0]
              /\ th[t].dtype = o.dtype

\* The copy of a zeros buffer of MaxLen elements came back.
C8_Witness ==
    \E t \in Threads :
       ReadBack(t, "zeros") /\ Len(th[t].host) = MaxLen

\* C9: the host copy of a cuda_from_cpu_storage buffer is the host buffer
\* it was made from, element for element, with its length and its dtype.
C9_RoundTrip ==
    \A t \in Threads :
       ReadBack(t, "from_host") =>
          LET o == bufs[th[t].src].origin
          IN  /\ th[t].host = o.host
              /\ th[t].dtype = o.dtype

\* A host buffer of MaxLen distinct elements came back after a kernel was
\* launched on the device between the two copies.
C9_Witness ==
    \E t \in Threads :
       /\ ReadBack(t, "from_host")
       /\ th[t].src = 1
       /\ Len(th[t].host) = MaxLen
       /\ Len(bufs) >= 2
       /\ launched[th[t].dev] >= 1

\* C10: an affine output has the length and dtype of the storage the call
\* was applied to, and no affine launch reads its input at or beyond the
\* input's length.
C10_AffineKeepsLength ==
    /\ \A t \in Threads :
          (AtRet(t, "affine") /\ th[t].out = "Ok") =>
             /\ Len(bufs[th[t].data].data) = Len(bufs[th[t].src].data)
             /\ bufs[th[t].data].dtype = bufs[th[t].src].dtype
    /\ \A d \in Devices : \A j \in 1..Len(stream[d]) :
          stream[d][j].kind = "affine" => OobReads(stream[d][j]) = {}


\* C11: the launch configuration of a fill or affine launch has at least as
\* many threads (grid size x block size) as the element count, for every
\* element count of the usize range, and computing it does not panic.
C11_ThreadsCoverCount ==
    \A t \in Threads :
       th[t].pc = "cfg" =>
          /\ th[t].out # "panic"
          /\ th[t].grid >= BlocksFor(th[t].n)


\* Kernel launches waiting in the stream of device d.
PendingLaunches(d) ==
    Cardinality({i \in 1..Len(stream[d]) : stream[d][i].kind \in {"fill", "affine"}})

\* Thread t's synchronous copy returned Ok.
CopyReturned(t) ==
    /\ th[t].pc = "ret"
    /\ th[t].op \in {"to_host", "from_host"}
    /\ th[t].out = "Ok"

\* C12: a to_cpu_storage or cuda_from_cpu_storage that returns Ok is a
\* barrier: its copy has left the stream and is complete (the host buffer
\* holds the device buffer's contents, resp. the device buffer the host
\* slice), and every launch the stream had accepted before the call was
\* made has been executed.
C12_SyncCopyIsBarrier ==
    \A t \in Threads :
       CopyReturned(t) =>
          /\ launched[th[t].dev] - PendingLaunches(th[t].dev) >= th[t].mark
          /\ \A d \in Devices : \A i \in 1..Len(stream[d]) : stream[d][i].t # t
          /\ th[t].op = "to_host" => th[t].host = bufs[th[t].src].data
          /\ th[t].op = "from_host" =>
                bufs[th[t].data].data = bufs[th[t].data].origin.host

\* A to_cpu_storage made after a launch returned while a launch another
\* thread enqueued after the call is still waiting in the stream.
C12_Witness ==
    \E t \in Threads :
       /\ CopyReturned(t)
       /\ th[t].op = "to_host"
       /\ bufs[th[t].src].origin.op \in {"const", "affine"}
       /\ th[t].mark >= 1
       /\ launched[th[t].dev] > th[t].mark
       /\ PendingLaunches(th[t].dev) >= 1


\* The kernel entries of a stream.
Kernels(q) == {i \in 1..Len(q) : q[i].kind \in {"fill", "affine"}}

\* The operations that use no kernel.
NoKernelOps == {"zeros", "from_host", "to_host"}

\* C13: no step of a zeros_impl call (and none of a cuda_from_cpu_storage or
\* to_cpu_storage call) touches the kernel cache or launches a kernel: the
\* loaded modules, the compilations, the loads, the count of launches and
\* the kernel entries of the stream are as before the step, whatever the
\* cache holds, and the call ends Ok unless the environment failed.
C13_ZerosUsesNoKernel ==
    [][\A t \in Threads :
          (th'[t] # th[t] /\ (th[t].op \in NoKernelOps \/ th'[t].op \in NoKernelOps))
          => /\ UNCHANGED <<modules, compiles, loads, launched>>
             /\ \A d \in Devices :
                   Cardinality(Kernels(stream'[d])) <= Cardinality(Kernels(stream[d]))
             /\ th'[t].pc = "ret" => (th'[t].out = "Ok" \/ EnvFailure(t)')]_vars

\* A zeros_impl returned Ok on a device that never compiled or launched
\* anything, after a cuda_from_cpu_storage had done so too.
C13_Witness ==
    \E t \in Threads :
       /\ AtRet(t, "zeros")
       /\ th[t].out = "Ok"
       /\ th[t].n = MaxLen
       /\ \A d \in Devices :
             /\ modules[d] = {}
             /\ \A k \in KernelNames : compiles[d][k] = 0
             /\ launched[d] = 0
       /\ \E s \in storages : bufs[s.buf].origin.op = "from_host"


\* C14: the dtype() of a storage is the dtype it was created with and the
\* element type of its buffer: the dtype asked of zeros_impl / const_impl,
\* the dtype of the host buffer for cuda_from_cpu_storage, the dtype() of
\* the input storage for affine_impl; to_cpu_storage returns a host buffer
\* of the storage's dtype(); and no step changes the dtype() of a storage
\* a caller holds or the element type of its buffer.
C14_DTypeFixed ==
    /\ [](\A s \in storages :
             LET o == bufs[s.buf].origin
             IN  /\ StorageDType(s) = bufs[s.buf].dtype
                 /\ StorageDType(s) = o.dtype
                 /\ o.op = "affine" =>
                       \E x \in storages : x.buf = o.src /\ StorageDType(x) = StorageDType(s)
                 /\ \A x \in storages : x.buf = s.buf => x = s)
    /\ [](\A t \in Threads :
             (AtRet(t, "to_host") /\ th[t].out = "Ok") =>
                \E s \in storages : s.buf = th[t].src /\ th[t].dtype = StorageDType(s))
    /\ [][/\ storages \subseteq storages'
          /\ \A s \in storages : bufs'[s.buf].dtype = bufs[s.buf].dtype]_vars

\* The host copy of an F64 affine output whose input was made from an F64
\* host buffer came back.
C14_Witness ==
    \E t \in Threads :
       /\ ReadBack(t, "affine")
       /\ th[t].dtype = "F64"
       /\ bufs[bufs[th[t].src].origin.src].origin.op = "from_host"
       /\ [tag |-> "F64", buf |-> bufs[th[t].src].origin.src] \in storages


\* Thread t is inside an affine_impl call that passed the contiguity check.
InAffine(t) ==
    th[t].op = "affine" /\ th[t].out # "RequiresContiguous" /\ th[t].pc # "idle"

\* C15: device() of a storage is a handle of the device its buffer was
\* allocated on, with that device's ordinal; a storage made through a
\* handle (or a clone of it) is allocated on the handle's device; an
\* affine_impl call runs on the device of its input storage: it resolves
\* its kernel in that device's cache only and allocates its output there;
\* and with a single caller a kernel is compiled only while the cache of
\* the call's device has no module of its name, whichever handle or storage
\* the call was made through.
C15_StorageOnItsDevice ==
    /\ [](\A s \in storages :
             /\ StorageDevice(s).arc = bufs[s.buf].dev
             /\ ordinal(StorageDevice(s)) = DeviceOrdinal(bufs[s.buf].dev)
             /\ ordinal(Clone(StorageDevice(s))) = ordinal(StorageDevice(s)))
    /\ [](\A t \in Threads :
             /\ (th[t].pc = "ret" /\ th[t].out = "Ok" /\ th[t].data # 0) =>
                   /\ th[t].dev \in Devices
                   /\ bufs[th[t].data].dev = th[t].dev
             /\ InAffine(t) => th[t].dev = bufs[th[t].src].dev
             /\ th[t].pc \in {"compile", "load"} =>
                   th[t].k \notin modules[th[t].dev])
    /\ [][\A t \in Threads, d \in Devices :
             (InAffine(t) /\ th'[t] # th[t] /\ d # bufs[th[t].src].dev) =>
                /\ modules'[d] = modules[d]
                /\ compiles'[d] = compiles[d]
                /\ loads'[d] = loads[d]
                /\ stream'[d] = stream[d]]_vars

\* An affine_impl on a storage of the second device returned Ok: its output
\* is on the second device and its kernel is in the second device's cache
\* and not in the first's.
C15_Witness ==
    \E t \in Threads :
       /\ AtRet(t, "affine")
       /\ th[t].out = "Ok"
       /\ bufs[th[t].src].dev = NumDevices
       /\ bufs[th[t].data].dev = NumDevices
       /\ th[t].k \in modules[NumDevices]
       /\ th[t].k \notin modules[1]
       /\ compiles[NumDevices][th[t].k] = 1


\* C16: get_or_load_func ends with the compile error exactly when
\* compile_ptx failed, and with MissingKernel exactly when the lookup that
\* follows the hit or the load finds no module of the name; a caller reaches
\* that lookup only with the module in the cache of its device, entries are
\* never removed, and so no call ever ends with MissingKernel, with
\* concurrent callers too.
C16_MissingKernelUnreachable ==
    /\ [](\A t \in Threads :
             /\ th[t].out # "MissingKernel"
             /\ th[t].pc = "get_func" => th[t].k \in modules[th[t].dev])
    /\ [][\A t \in Threads :
             /\ (th[t].pc = "compile" /\ th'[t].pc = "ret") =>
                   (th'[t].out = "Compiler" /\ compiles' = compiles)
             /\ (th[t].pc # "compile" /\ th'[t] # th[t]) => th'[t].out # "Compiler"
             /\ (th[t].pc = "get_func" /\ th'[t] # th[t]) =>
                   (th'[t].out = "MissingKernel" <=> th[t].k \notin modules[th[t].dev])
             /\ (th[t].pc # "get_func" /\ th'[t] # th[t]) =>
                   th'[t].out # "MissingKernel"
             /\ \A d \in Devices : modules[d] \subseteq modules'[d]]_vars

\* Two concurrent callers both loaded the same name and one of them is past
\* its lookup, about to launch.
C16_Witness ==
    \E t \in Threads :
       /\ th[t].pc = "launch"
       /\ loads[th[t].dev][th[t].k] = 2


\* C17: a compile_ptx or load_ptx that fails ends the call at once with the
\* error (no second attempt inside the call) and inserts nothing: the cache
\* is as before and has no module of the name; the next call needing the
\* name misses in has_func and goes on to compile again.
C17_FailedLoadNotCached ==
    [][\A t \in Threads :
          /\ (th[t].pc \in {"compile", "load"} /\ th'[t].pc = "ret") =>
                /\ th'[t].out \in {"Compiler", "Cuda"}
                /\ modules' = modules
                /\ loads' = loads
                /\ th[t].k \notin modules'[th[t].dev]
          /\ (th[t].pc = "compile" /\ th'[t] # th[t]) => th'[t].pc \in {"load", "ret"}
          /\ (th[t].pc = "load" /\ th'[t] # th[t]) => th'[t].pc \in {"get_func", "ret"}
          /\ (th[t].pc = "ret" /\ th'[t] # th[t]) => th'[t].pc = "idle"
          /\ (th[t].pc = "has_func" /\ th'[t] # th[t]
                /\ th[t].k \notin modules[th[t].dev]) => th'[t].pc = "compile"]_vars

\* A name was compiled, its load failed, and a later call compiled it again
\* and loaded it.
C17_Witness ==
    \E k \in KernelNames :
       /\ compiles[1][k] = 2
       /\ loads[1][k] = 1
       /\ k \in modules[1]
       /\ faults = 1


\* C18: the cache is keyed by kernel name.  The four (operation, dtype)
\* pairs have four different names; a call looks up the name of its own
\* operation and dtype; a load inserts the module of that one name and no
\* other, so a name is in the cache only after a compilation and a load of
\* its own, whatever other names of the same source are loaded already.
C18_CachePerKernelName ==
    /\ [](/\ Cardinality({FillName(dt) : dt \in DTypes}
                            \cup {AffineName(dt) : dt \in DTypes})
               = 2 * Cardinality(DTypes)
          /\ \A t \in Threads :
                /\ th[t].pc \in {"has_func", "compile", "load", "get_func"} =>
                      th[t].k = IF th[t].op = "const" THEN FillName(th[t].dtype)
                                ELSE AffineName(th[t].dtype)
                /\ th[t].pc \in {"compile", "load"} =>
                      th[t].k \notin modules[th[t].dev]
          /\ \A d \in Devices, k \in KernelNames :
                k \in modules[d] => (compiles[d][k] >= 1 /\ loads[d][k] >= 1))
    /\ [][\A d \in Devices :
             modules'[d] # modules[d] =>
                \E t \in Threads :
                   /\ th[t].pc = "load" /\ th[t].dev = d
                   /\ modules'[d] = modules[d] \cup {th[t].k}]_vars

\* Both kernels of the fill source are loaded, and the source was compiled
\* once for each.
C18_Witness ==
    /\ modules[1] = {"fill_f32", "fill_f64"}
    /\ compiles[1]["fill_f32"] = 1
    /\ compiles[1]["fill_f64"] = 1
    /\ faults = 0


\* C19: affine_impl and to_cpu_storage leave the storage they are applied
\* to as it was.  No step changes the length or the element type of the
\* buffer of a held storage, nor its contents once they are written; a step
\* of a thread inside an affine_impl or to_cpu_storage call, and the device
\* executing an affine launch or a device-to-host copy, leave the input
\* buffer unchanged; the output of affine_impl is a buffer allocated by the
\* call, with a new id, different from the input; and an Ok to_cpu_storage
\* returns the contents the buffer holds (for a buffer made from a host
\* slice: that slice), whatever affine calls were made on it.
C19_InputUnchanged ==
    /\ [][/\ \A s \in storages :
                /\ Len(bufs'[s.buf].data) = Len(bufs[s.buf].data)
                /\ bufs'[s.buf].dtype = bufs[s.buf].dtype
                /\ bufs'[s.buf].live
                /\ NoUninit(bufs[s.buf].data) => bufs'[s.buf].data = bufs[s.buf].data
          /\ \A t \in Threads :
                /\ (th[t].op \in {"affine", "to_host"} /\ th'[t] # th[t]) =>
                      bufs'[th[t].src] = bufs[th[t].src]
                /\ (InAffine(t) /\ th[t].data = 0 /\ th'[t].data # 0) =>
                      /\ th'[t].data = Len(bufs) + 1
                      /\ Len(bufs') = Len(bufs) + 1
                      /\ th'[t].data # th[t].src
          /\ \A d \in Devices :
                (/\ stream[d] # <<>>
                 /\ stream'[d] = Tail(stream[d])
                 /\ Head(stream[d]).kind \in {"affine", "dtoh"}) =>
                   /\ bufs'[Head(stream[d]).src] = bufs[Head(stream[d]).src]
                   /\ Head(stream[d]).dst # Head(stream[d]).src]_vars
    /\ [](\A t \in Threads :
             (AtRet(t, "to_host") /\ th[t].out = "Ok") =>
                /\ th[t].host = bufs[th[t].src].data
                /\ Len(th[t].host) = bufs[th[t].src].origin.n
                /\ bufs[th[t].src].origin.op = "from_host" =>
                      th[t].host = bufs[th[t].src].origin.host)

\* The host copy of a storage made from a host slice came back after an
\* affine launch on that storage had been executed.
C19_Witness ==
    \E t \in Threads, b \in 1..Len(bufs) :
       /\ ReadBack(t, "from_host")
       /\ Len(th[t].host) >= 1
       /\ bufs[b].live
       /\ bufs[b].origin.op = "affine"
       /\ bufs[b].origin.src = th[t].src
       /\ Len(bufs[b].data) >= 1
       /\ NoUninit(bufs[b].data)

=============================================================================
